---- MODULE Spec2Model ----
(***************************************************************************)
(* Model of SegmentSlicer.cut_segment (src/src/data/Segment_Slicer.py):    *)
(* grade calculation, centred smoothing, the climb and the descent         *)
(* scanners, candidate validation and classification, sharp-turn counting  *)
(* and gap filling.                                                        *)
(*                                                                         *)
(* Route indices are 0-based as in the source; sequences are 1-based, so   *)
(* point i of the route is element i+1 of a profile.  Floating-point       *)
(* numbers are modelled as exact rationals [num, den] with den > 0, so a   *)
(* comparison with a threshold is decided exactly.  The statistics fields  *)
(* max_grade, min_grade and grade_variance of a segment record are not     *)
(* part of the model.                                                      *)
(***************************************************************************)
EXTENDS Integers, Sequences, FiniteSets, TLC

VARIABLES
    altitude_profile,   \* argument: altitudes (m)
    distance_profile,   \* argument: cumulative distances (m)
    coordinates,        \* argument: [given, pts]; pts elements [ok, lat, lon]
    smooth_window,      \* argument
    pc,                 \* position in cut_segment
    has_coords,         \* local of cut_segment
    grade,              \* df['grade'], a sequence of rationals
    plot_grade,         \* df['plot_grade'], a sequence of rationals
    i,                  \* loop index of the running detector
    state,              \* scanner state of the running detector
    start_idx,          \* scanner: start of the segment in progress
    segment_points,     \* scanner: route indices collected so far
    pause_start_idx,    \* scanner
    pause_length,       \* scanner
    pause_counter,      \* scanner: pause_descent (climbs) / pause_ascent (descents)
    climbs,             \* list built by _detect_climbs
    descents,           \* list built by _detect_descents
    validated,          \* history: every candidate handed to validation
    result,             \* the list returned by cut_segment
    calls,              \* history: the earlier calls on this SegmentSlicer
    accounts,           \* StravaTokenManager.accounts: the account names
    current_account_idx,\* StravaTokenManager.current_account_idx
    account_stats,      \* StravaTokenManager.account_stats, by account name
    now,                \* the clock, in 15-minute windows
    attempt,            \* loop index of make_strava_request_with_retry
    request,            \* position in make_strava_request_with_retry
    rate_limit          \* history: the last call of handle_rate_limit

vars == <<altitude_profile, distance_profile, coordinates, smooth_window, pc,
          has_coords, grade, plot_grade, i, state, start_idx, segment_points,
          pause_start_idx, pause_length, pause_counter, climbs, descents,
          validated, result, calls, accounts, current_account_idx,
          account_stats, now, attempt, request, rate_limit>>

\* the variables of cut_segment and its detectors
slicer_vars == <<altitude_profile, distance_profile, coordinates,
                 smooth_window, pc, has_coords, grade, plot_grade, i, state,
                 start_idx, segment_points, pause_start_idx, pause_length,
                 pause_counter, climbs, descents, validated, result, calls>>

\* the variables of the StravaTokenManager and of the request in progress
token_vars == <<accounts, current_account_idx, account_stats, now, attempt,
                request, rate_limit>>

-----------------------------------------------------------------------------
(* Bounds of the model and the alphabets the inputs are drawn from.        *)

\* Spec: every profile of up to MaxPoints points
MaxPoints == 5

DistSteps == {0, 50, 300}

AltSteps == {-30, 0, 50}

Windows == {1, 10}

\* SpecRise: 100 m gained over 1000 m in RiseSteps equal steps
RiseSteps == {1, 2, 4, 5, 10, 20}

\* SpecPause: climbs with pauses, unsmoothed
MaxPausePoints == 6

PauseDistSteps == {100, 300}

PauseAltSteps == {-30, -10, 50}

\* SpecCoords: a steady descent with coordinates
MaxCoordPoints == 6

CoordDistSteps == {15, 100}

CoordAltSteps == {-30}

\* SpecGrades: profiles whose distance samples repeat or go backwards
MaxGradePoints == 5

GradeDistSteps == {-50, 0, 300}

GradeAltSteps == {-30, 50}


\* SpecSession: MaxCalls calls in a row on one SegmentSlicer
MaxCalls == 3

MaxSessionPoints == 4

SessionDistSteps == {150}

SessionAltSteps == {-30, 50}


\* SpecWindow: every smoothing window from 1 to MaxWindow
MaxWindow == 6

MaxWindowPoints == 4

WindowDistSteps == {300}

WindowAltSteps == {0, 50}


\* SpecClassify: candidates whose score sits on and next to every threshold
MaxClassifyPoints == 3

ClassifyDistSteps == {150, 1500, 15000}

ClassifyGains == {79, 80, 90, 160, 320, 640, 800}

ClassifyAltSteps == ClassifyGains \cup {-g : g \in ClassifyGains}


\* SpecFiller: gentle routes whose mean grade is on and around 1 % and -1 %
MaxFillerPoints == 3

FillerDistSteps == {300}

FillerAltSteps == {-7, -6, -3, 0, 3, 6, 7}


\* SpecTurns: descents that begin after a level stretch, on a route that
\* doubles back on itself at one point
MaxTurnPoints == 5

TurnDistSteps == {15, 300}

TurnAltSteps == {-90, 0}


\* the mirrored session: profiles of 2..MaxMirrorPoints points over a step
\* alphabet closed under negation
MaxMirrorPoints == 4
MirrorDistSteps == {100}
MirrorAltSteps == {-100, -50, -2, 2, 50, 100}


\* SpecTokens: up to MaxAccounts configured accounts, requests retried up to
\* MaxRetries times, the clock followed MaxWindowsIntoDay windows past
\* midnight
MaxAccounts == 2
MaxRetries == 3
MaxWindowsIntoDay == 1
AccountNames == <<"strava", "strava2", "strava3", "strava4">>
WindowCalls == {0, 99, 100}
TodayCalls == {100, 999, 1000}
Statuses == {200, 401, 429, 500}

-----------------------------------------------------------------------------
(* Program constants.                                                      *)

min_points == 2

gap_min_m == 50

max_pause_length_m == 200

max_pause_descent_m == 15

max_pause_ascent_m == 15

min_length_m == 300

min_gain_m == 20

min_loss_m == 20

sharp_turn_span_m == 50

\* Strava_Token_Manager.py lines 13-15
CALLS_PER_15MIN == 100
CALLS_PER_DAY == 1000
WINDOW_MINUTES == 15

-----------------------------------------------------------------------------
(* Exact rationals.                                                        *)

Abs(x) == IF x < 0 THEN -x ELSE x

Range(s) == {s[k] : k \in 1..Len(s)}

Max(a, b) == IF a >= b THEN a ELSE b

Min(a, b) == IF a <= b THEN a ELSE b

RECURSIVE GCD(_, _)
GCD(a, b) == IF b = 0 THEN a ELSE GCD(b, a % b)

Rat(n, d) ==
    LET g == GCD(Abs(n), Abs(d))
        s == IF d < 0 THEN -1 ELSE 1
    IN  IF n = 0 THEN [num |-> 0, den |-> 1]
        ELSE [num |-> s * (n \div g), den |-> s * (d \div g)]

RatAdd(a, b) == Rat(a.num * b.den + b.num * a.den, a.den * b.den)

RatDivInt(a, k) == Rat(a.num, a.den * k)

\* a >= n/d and a <= n/d for a rational a and integers n, d with d > 0
RatGeq(a, n, d) == a.num * d >= n * a.den

RatLeq(a, n, d) == a.num * d <= n * a.den

RatGt(a, n, d) == a.num * d > n * a.den

RatLt(a, n, d) == a.num * d < n * a.den

RECURSIVE RatSum(_, _, _)
\* sum of s[lo..hi] (1-based, inclusive), 0 when the range is empty
RatSum(s, lo, hi) ==
    IF lo > hi THEN [num |-> 0, den |-> 1]
    ELSE RatAdd(s[lo], RatSum(s, lo + 1, hi))

-----------------------------------------------------------------------------
(* The data frame: columns by 0-based route index.                         *)

N == Len(altitude_profile)

ele(k) == altitude_profile[k + 1]

distance(k) == distance_profile[k + 1]

grade_at(k) == plot_grade[k + 1]

\* mutant: the grade is computed wherever the distance delta is not zero
calculate_grades_nonzero_delta(alt, dist) ==
    [k \in 1..Len(alt) |->
        IF k = 1 THEN [num |-> 0, den |-> 1]
        ELSE IF dist[k] - dist[k - 1] # 0
             THEN Rat((alt[k] - alt[k - 1]) * 100, dist[k] - dist[k - 1])
             ELSE [num |-> 0, den |-> 1]]


\* _calculate_grades: diff() is NaN at index 0 and NaN > 0 is False, so
\* np.where gives 0 there; 0 too where the distance delta is not positive.
calculate_grades(alt, dist) ==
    [k \in 1..Len(alt) |->
        IF k = 1 THEN [num |-> 0, den |-> 1]
        ELSE IF dist[k] - dist[k - 1] > 0
             THEN Rat((alt[k] - alt[k - 1]) * 100, dist[k] - dist[k - 1])
             ELSE [num |-> 0, den |-> 1]]

\* mutant: an even window is left even
window_size_even_kept(window, n) == Min(window, n)


\* the window _apply_smoothing hands to rolling()
window_size(window, n) ==
    LET w == Min(window, n)
    IN  IF w % 2 = 0 THEN w + 1 ELSE w

\* _apply_smoothing: centred rolling mean, min_periods = 1
apply_smoothing(grades, window) ==
    LET n == Len(grades)
        h == (window_size(window, n) - 1) \div 2
    IN  [k \in 1..n |->
            LET lo == Max(1, k - h)
                hi == Min(n, k + h)
            IN  RatDivInt(RatSum(grades, lo, hi), hi - lo + 1)]


-----------------------------------------------------------------------------
(* Classification.  avg_slope is a rational; score = length_m * avg_slope. *)

StartThreshold == [num |-> 3, den |-> 1]

EndThreshold == [num |-> 3, den |-> 2]

MinCategorySlope == [num |-> 3, den |-> 1]

score(length_m, avg_slope) == Rat(length_m * avg_slope.num, avg_slope.den)

\* mutant: the Cat 4 threshold is exclusive
classify_climb_strava_exclusive(length_m, avg_slope) ==
    IF RatLt(avg_slope, MinCategorySlope.num, MinCategorySlope.den)
    THEN "Uncategorized"
    ELSE LET sc == score(length_m, avg_slope)
         IN  IF RatGeq(sc, 80000, 1) THEN "HC"
             ELSE IF RatGeq(sc, 64000, 1) THEN "Cat 1"
             ELSE IF RatGeq(sc, 32000, 1) THEN "Cat 2"
             ELSE IF RatGeq(sc, 16000, 1) THEN "Cat 3"
             ELSE IF RatGt(sc, 8000, 1) THEN "Cat 4"
             ELSE "Uncategorized"


classify_climb_strava(length_m, avg_slope) ==
    IF RatLt(avg_slope, MinCategorySlope.num, MinCategorySlope.den)
    THEN "Uncategorized"
    ELSE LET sc == score(length_m, avg_slope)
         IN  IF RatGeq(sc, 80000, 1) THEN "HC"
             ELSE IF RatGeq(sc, 64000, 1) THEN "Cat 1"
             ELSE IF RatGeq(sc, 32000, 1) THEN "Cat 2"
             ELSE IF RatGeq(sc, 16000, 1) THEN "Cat 3"
             ELSE IF RatGeq(sc, 8000, 1) THEN "Cat 4"
             ELSE "Uncategorized"

classify_descent(length_m, avg_slope) ==
    IF RatLt(avg_slope, MinCategorySlope.num, MinCategorySlope.den)
    THEN "Uncategorized"
    ELSE LET sc == score(length_m, avg_slope)
         IN  IF RatGeq(sc, 64000, 1) THEN "Major Descent"
             ELSE IF RatGeq(sc, 32000, 1) THEN "Significant Descent"
             ELSE IF RatGeq(sc, 16000, 1) THEN "Moderate Descent"
             ELSE IF RatGeq(sc, 8000, 1) THEN "Minor Descent"
             ELSE "Uncategorized"

-----------------------------------------------------------------------------
(* Candidate validation.  pts is segment_df: the route indices of its rows *)
(* in order.                                                               *)

RECURSIVE rows_where(_, _, _)
\* segment_df[segment_df['ele'].diff() > 0]['ele'] (sign = 1) or ... < 0
\* (sign = -1): the altitudes of the rows k >= from whose own delta has the
\* sign; row 1 has a NaN delta and never passes.
rows_where(pts, from, sign) ==
    IF from > Len(pts) THEN <<>>
    ELSE LET d == ele(pts[from]) - ele(pts[from - 1])
         IN  (IF d * sign > 0 THEN <<ele(pts[from])>> ELSE <<>>)
             \o rows_where(pts, from + 1, sign)

RECURSIVE diff_sum(_, _)
\* s.diff().sum() from row `from` on: the first row's delta is NaN, skipped
diff_sum(s, from) ==
    IF from > Len(s) THEN 0
    ELSE (s[from] - s[from - 1]) + diff_sum(s, from + 1)

\* gain as line 165 computes it: the filtered column is diffed again
climb_gain(pts) == diff_sum(rows_where(pts, 2, 1), 2)

\* loss as line 276 computes it
descent_loss(pts) == Abs(diff_sum(rows_where(pts, 2, -1), 2))

segment_length(pts) == distance(pts[Len(pts)]) - distance(pts[1])

\* lines 161-171: TRUE when the candidate is kept
climb_retained(pts) ==
    /\ ~ (Len(pts) < min_points)
    /\ ~ (segment_length(pts) < min_length_m \/ climb_gain(pts) < min_gain_m)

\* lines 272-282
descent_retained(pts) ==
    /\ ~ (Len(pts) < min_points)
    /\ ~ (segment_length(pts) < min_length_m \/ descent_loss(pts) < min_loss_m)

\* mutant: every accepted climb candidate is typed climb
climb_record_always_climb(pts, start) ==
    LET length == segment_length(pts)
        gain == climb_gain(pts)
        avg_slope == IF length > 0 THEN Rat(gain * 100, length)
                     ELSE [num |-> 0, den |-> 1]
        category == classify_climb_strava(length, avg_slope)
    IN  [type |-> "climb",
         category |-> category,
         start_distance |-> distance(pts[1]),
         end_distance |-> distance(pts[Len(pts)]),
         distance |-> length,
         start_altitude |-> ele(pts[1]),
         end_altitude |-> ele(pts[Len(pts)]),
         elevation_gain |-> gain,
         elevation_loss |-> 0,
         elevation_change |-> gain,
         grade |-> avg_slope,
         start_idx |-> start,
         end_idx |-> start + Len(pts) - 1]


climb_record(pts, start) ==
    LET length == segment_length(pts)
        gain == climb_gain(pts)
        avg_slope == IF length > 0 THEN Rat(gain * 100, length)
                     ELSE [num |-> 0, den |-> 1]
        category == classify_climb_strava(length, avg_slope)
    IN  [type |-> IF category # "Uncategorized" THEN "climb" ELSE "uphill",
         category |-> category,
         start_distance |-> distance(pts[1]),
         end_distance |-> distance(pts[Len(pts)]),
         distance |-> length,
         start_altitude |-> ele(pts[1]),
         end_altitude |-> ele(pts[Len(pts)]),
         elevation_gain |-> gain,
         elevation_loss |-> 0,
         elevation_change |-> gain,
         grade |-> avg_slope,
         start_idx |-> start,
         end_idx |-> start + Len(pts) - 1]

validate_and_append_climb(climbs_list, pts, start) ==
    IF climb_retained(pts) THEN Append(climbs_list, climb_record(pts, start))
    ELSE climbs_list

-----------------------------------------------------------------------------
(* Sharp turns.  A coordinate is [ok, lat, lon]; ok = FALSE stands for an  *)
(* element that is not a pair of numbers, on which float() and the         *)
(* subtraction of _calculate_angle raise.                                  *)

\* _calculate_angle(p1, p2, p3) > 60, decided without arccos: the angle of
\* the vectors p2->p1 and p2->p3 exceeds 60 degrees iff its cosine is below
\* 1/2; a zero vector gives angle 0.
angle_over_60(p1, p2, p3) ==
    LET v1x == p1.lat - p2.lat
        v1y == p1.lon - p2.lon
        v2x == p3.lat - p2.lat
        v2y == p3.lon - p2.lon
        dot == v1x * v2x + v1y * v2y
        n1 == v1x * v1x + v1y * v1y
        n2 == v2x * v2x + v2y * v2y
    IN  IF n1 = 0 \/ n2 = 0 THEN FALSE
        ELSE dot <= 0 \/ 4 * dot * dot < n1 * n2

\* mutant: the distance span is not tested
count_sharp_turns_any_span(pts, coords) ==
    IF Len(coords) = 0 \/ Len(pts) < 3 THEN [raised |-> FALSE, value |-> 0]
    ELSE LET start == 0
             end == Len(pts) - 1
         IN  IF end >= Len(coords) \/ start >= Len(coords)
             THEN [raised |-> FALSE, value |-> 0]
             ELSE LET segment_coords == SubSeq(coords, start + 1, end + 1)
                      interior == 1..(Len(segment_coords) - 2)
                      sharp == {k \in interior :
                                  /\ angle_over_60(segment_coords[k],
                                                   segment_coords[k + 1],
                                                   segment_coords[k + 2])
                                  /\ k < Len(pts) - 1}
                  IN  IF \E k \in 1..Len(segment_coords) : ~ segment_coords[k].ok
                      THEN [raised |-> TRUE, value |-> 0]
                      ELSE [raised |-> FALSE, value |-> Cardinality(sharp)]


\* _count_sharp_turns(segment_df, coordinates): [raised, value].  segment_df
\* is built from a list of dicts, so its index is 0..len-1 and the slice
\* taken from coordinates is coordinates[0 : len(segment_df)].
count_sharp_turns(pts, coords) ==
    IF Len(coords) = 0 \/ Len(pts) < 3 THEN [raised |-> FALSE, value |-> 0]
    ELSE LET start == 0
             end == Len(pts) - 1
         IN  IF end >= Len(coords) \/ start >= Len(coords)
             THEN [raised |-> FALSE, value |-> 0]
             ELSE LET segment_coords == SubSeq(coords, start + 1, end + 1)
                      interior == 1..(Len(segment_coords) - 2)
                      sharp == {k \in interior :
                                  /\ angle_over_60(segment_coords[k],
                                                   segment_coords[k + 1],
                                                   segment_coords[k + 2])
                                  /\ k < Len(pts) - 1
                                  /\ distance(pts[k + 2]) - distance(pts[k])
                                       < sharp_turn_span_m}
                  IN  IF \E k \in 1..Len(segment_coords) : ~ segment_coords[k].ok
                      THEN [raised |-> TRUE, value |-> 0]
                      ELSE [raised |-> FALSE, value |-> Cardinality(sharp)]

descent_record(pts, start, sharp_turns) ==
    LET length == segment_length(pts)
        loss == descent_loss(pts)
        avg_slope == IF length > 0 THEN Rat(-(loss * 100), length)
                     ELSE [num |-> 0, den |-> 1]
        category == classify_descent(length, Rat(Abs(avg_slope.num), avg_slope.den))
        segment_type == IF category # "Uncategorized" THEN "descent" ELSE "downhill"
    IN  [type |-> segment_type,
         category |-> category,
         start_distance |-> distance(pts[1]),
         end_distance |-> distance(pts[Len(pts)]),
         distance |-> length,
         start_altitude |-> ele(pts[1]),
         end_altitude |-> ele(pts[Len(pts)]),
         elevation_gain |-> 0,
         elevation_loss |-> loss,
         elevation_change |-> -loss,
         grade |-> avg_slope,
         sharp_turns |-> IF segment_type = "descent" THEN sharp_turns ELSE 0,
         start_idx |-> start,
         end_idx |-> start + Len(pts) - 1]

\* line 295: the turn counter runs when the type is descent and the
\* coordinates ARGUMENT is truthy (has_coords is not consulted)
turns_counted(pts, coords) ==
    /\ descent_record(pts, 0, 0).type = "descent"
    /\ coords.given
    /\ Len(coords.pts) > 0

\* _validate_and_append_descent: [raised, list]
validate_and_append_descent(descents_list, pts, start, coords) ==
    IF ~ descent_retained(pts) THEN [raised |-> FALSE, list |-> descents_list]
    ELSE LET turns == IF turns_counted(pts, coords)
                      THEN count_sharp_turns(pts, coords.pts)
                      ELSE [raised |-> FALSE, value |-> 0]
         IN  IF turns.raised THEN [raised |-> TRUE, list |-> descents_list]
             ELSE [raised |-> FALSE,
                   list |-> Append(descents_list,
                                   descent_record(pts, start, turns.value))]

-----------------------------------------------------------------------------
(* Merging and gap filling.                                                *)

RECURSIVE insert_by_start(_, _)
\* x placed after every element whose start_distance is <= its own
insert_by_start(sorted, x) ==
    IF sorted = <<>> THEN <<x>>
    ELSE IF Head(sorted).start_distance <= x.start_distance
         THEN <<Head(sorted)>> \o insert_by_start(Tail(sorted), x)
         ELSE <<x>> \o sorted

RECURSIVE sort_by_start(_, _)
\* list.sort(key = start_distance), a stable sort, of segs[k..]
sort_by_start(segs, sorted) ==
    IF segs = <<>> THEN sorted
    ELSE sort_by_start(Tail(segs), insert_by_start(sorted, Head(segs)))

\* mutant: the merged list is not sorted
merge_segments_unsorted(climbs_list, descents_list) ==
    climbs_list \o descents_list

\* lines 54-55
merge_segments(climbs_list, descents_list) ==
    sort_by_start(climbs_list \o descents_list, <<>>)

\* NaN: every comparison with a number is false
NaN == [num |-> 0, den |-> 0]

\* df.loc[a:b, 'plot_grade'].mean(), both ends included; the mean of an
\* empty slice is NaN
mean_grade(a, b) ==
    IF a > b THEN NaN
    ELSE RatDivInt(RatSum(plot_grade, a + 1, b + 1), b - a + 1)

\* mutant: the two bounds belong to uphill and downhill
filler_type_inclusive(avg_grade) ==
    IF RatGeq(avg_grade, 1, 1) THEN "uphill"
    ELSE IF RatLeq(avg_grade, -1, 1) THEN "downhill"
    ELSE "flat"


filler_type(avg_grade) ==
    IF RatGt(avg_grade, 1, 1) THEN "uphill"
    ELSE IF RatLt(avg_grade, -1, 1) THEN "downhill"
    ELSE "flat"

\* mutant: the filler's two indices change places
create_flat_segment_swapped(start, end, avg_grade) ==
    LET elev_change == ele(end) - ele(start)
    IN  [type |-> filler_type(avg_grade),
         category |-> "Uncategorized",
         start_distance |-> distance(start),
         end_distance |-> distance(end),
         distance |-> distance(end) - distance(start),
         start_altitude |-> ele(start),
         end_altitude |-> ele(end),
         elevation_gain |-> Max(0, elev_change),
         elevation_loss |-> Max(0, -elev_change),
         elevation_change |-> elev_change,
         grade |-> avg_grade,
         start_idx |-> end,
         end_idx |-> start]


create_flat_segment(start, end, avg_grade) ==
    LET elev_change == ele(end) - ele(start)
    IN  [type |-> filler_type(avg_grade),
         category |-> "Uncategorized",
         start_distance |-> distance(start),
         end_distance |-> distance(end),
         distance |-> distance(end) - distance(start),
         start_altitude |-> ele(start),
         end_altitude |-> ele(end),
         elevation_gain |-> Max(0, elev_change),
         elevation_loss |-> Max(0, -elev_change),
         elevation_change |-> elev_change,
         grade |-> avg_grade,
         start_idx |-> start,
         end_idx |-> end]

\* df[df['distance'] >= d].index[0]
first_index_from(d) ==
    CHOOSE k \in 0..(N - 1) :
        /\ distance(k) >= d
        /\ \A j \in 0..(k - 1) : ~ (distance(j) >= d)

\* df[df['distance'] <= d].index[-1]
last_index_upto(d) ==
    CHOOSE k \in 0..(N - 1) :
        /\ distance(k) <= d
        /\ \A j \in (k + 1)..(N - 1) : ~ (distance(j) <= d)

\* mutant: a gap of exactly 50 m before a candidate is filled too
gap_before_inclusive(seg, last_end_dist) ==
    IF seg.start_distance >= last_end_dist + gap_min_m
    THEN LET gap_start_idx == first_index_from(last_end_dist)
             gap_end_idx == last_index_upto(seg.start_distance)
             gap_segment == create_flat_segment(gap_start_idx, gap_end_idx,
                                mean_grade(gap_start_idx, gap_end_idx))
         IN  IF gap_segment.distance >= gap_min_m THEN <<gap_segment>> ELSE <<>>
    ELSE <<>>


\* lines 443-453: the filler before seg, or nothing
gap_before(seg, last_end_dist) ==
    IF seg.start_distance > last_end_dist + gap_min_m
    THEN LET gap_start_idx == first_index_from(last_end_dist)
             gap_end_idx == last_index_upto(seg.start_distance)
             gap_segment == create_flat_segment(gap_start_idx, gap_end_idx,
                                mean_grade(gap_start_idx, gap_end_idx))
         IN  IF gap_segment.distance > gap_min_m THEN <<gap_segment>> ELSE <<>>
    ELSE <<>>

\* mutant: the trailing gap is never filled
gap_after_never(last_end_dist) == <<>>

\* lines 459-469: the filler after the last segment, or nothing
gap_after(last_end_dist) ==
    IF last_end_dist < distance(N - 1) - gap_min_m
    THEN LET gap_start_idx == first_index_from(last_end_dist)
             gap_end_idx == N - 1
             gap_segment == create_flat_segment(gap_start_idx, gap_end_idx,
                                mean_grade(gap_start_idx, gap_end_idx))
         IN  IF gap_segment.distance > gap_min_m THEN <<gap_segment>> ELSE <<>>
    ELSE <<>>

RECURSIVE fill_loop(_, _, _)
\* lines 441-469: the loop over the segments, then the trailing gap
fill_loop(segments, filled, last_end_dist) ==
    IF segments = <<>> THEN filled \o gap_after(last_end_dist)
    ELSE LET seg == Head(segments)
         IN  fill_loop(Tail(segments),
                       filled \o gap_before(seg, last_end_dist) \o <<seg>>,
                       seg.end_distance)

\* mutant: the empty candidate list is not treated apart
no_segments_unchecked(segments) == FALSE

\* line 433: the candidate list is empty
no_segments(segments) == segments = <<>>

fill_gaps(segments) ==
    IF no_segments(segments)
    THEN <<create_flat_segment(0, N - 1, mean_grade(0, N - 1))>>
    ELSE fill_loop(segments, <<>>, 0)

-----------------------------------------------------------------------------
(* cut_segment as a state machine.                                         *)

NoCoordinates == [given |-> FALSE, pts |-> <<>>]

\* lines 19-27: every element converts with float(c[0]), float(c[1])
coords_parse(coords) == \A k \in 1..Len(coords.pts) : coords.pts[k].ok

\* the length of the lat/lon columns handed to pd.DataFrame
coords_column_len(coords, n) ==
    IF coords.given /\ coords_parse(coords) THEN Len(coords.pts) ELSE n

\* line 40
too_short(n) == n < min_points

ScannerReset ==
    /\ i' = 1
    /\ state' = "SEARCHING"
    /\ start_idx' = 0
    /\ segment_points' = <<>>
    /\ pause_start_idx' = 0
    /\ pause_length' = 0
    /\ pause_counter' = 0

\* lines 19-47: coordinates, data frame, early return, grades, smoothing
CutSegment ==
    /\ pc = "call"
    /\ has_coords' = (coordinates.given /\ coords_parse(coordinates))
    /\ IF coords_column_len(coordinates, N) # N
       THEN /\ pc' = "raised"
            /\ UNCHANGED <<grade, plot_grade, result>>
       ELSE IF too_short(N)
       THEN /\ pc' = "done"
            /\ result' = <<>>
            /\ UNCHANGED <<grade, plot_grade>>
       ELSE /\ pc' = "climbs"
            /\ grade' = calculate_grades(altitude_profile, distance_profile)
            /\ plot_grade' = apply_smoothing(grade', smooth_window)
            /\ UNCHANGED result
    /\ UNCHANGED <<token_vars, calls, altitude_profile, distance_profile, coordinates,
                   smooth_window,
                   i, state, start_idx, segment_points, pause_start_idx,
                   pause_length, pause_counter, climbs, descents, validated>>

\* mutant: a segment opens one point further back
segment_opening_earlier(k) ==
    [start_idx |-> Max(0, k - 2), points |-> <<Max(0, k - 2), k - 1, k>>]

\* lines 115-116, 226-227: a segment opens at point k with the point before
\* it as its first point
segment_opening(k) == [start_idx |-> k - 1, points |-> <<k - 1, k>>]

\* mutant: the points of the failed pause are not cut off
drop_last_nothing(points, k) == points


\* segment_points[:-k] for k > 0
drop_last(points, k) == SubSeq(points, 1, Max(Len(points) - k, 0))

climb_starts(slope) == RatGeq(slope, StartThreshold.num, StartThreshold.den)

climb_continues(slope) == RatGeq(slope, EndThreshold.num, EndThreshold.den)

climb_pause_failed(length, counter) ==
    length > max_pause_length_m \/ counter > max_pause_descent_m

\* lines 106-147: one iteration of the loop of _detect_climbs
DetectClimbsStep ==
    /\ pc = "climbs"
    /\ i < N
    /\ LET slope == grade_at(i)
           elev_diff == ele(i) - ele(i - 1)
           dist_diff == distance(i) - distance(i - 1)
       IN  IF state = "SEARCHING"
           THEN /\ IF climb_starts(slope)
                   THEN /\ state' = "IN_CLIMB"
                        /\ start_idx' = segment_opening(i).start_idx
                        /\ segment_points' = segment_opening(i).points
                   ELSE UNCHANGED <<state, start_idx, segment_points>>
                /\ UNCHANGED <<pause_start_idx, pause_length, pause_counter,
                               climbs, validated>>
           ELSE IF state = "IN_CLIMB"
           THEN /\ segment_points' = Append(segment_points, i)
                /\ IF climb_continues(slope)
                   THEN UNCHANGED <<state, pause_start_idx, pause_length,
                                    pause_counter>>
                   ELSE /\ state' = "EVALUATING_PAUSE"
                        /\ pause_start_idx' = i - 1
                        /\ pause_length' = 0
                        /\ pause_counter' = 0
                /\ UNCHANGED <<start_idx, climbs, validated>>
           ELSE LET collected == Append(segment_points, i)
                    new_length == pause_length + dist_diff
                    new_descent == IF elev_diff < 0
                                   THEN pause_counter + Abs(elev_diff)
                                   ELSE pause_counter
                IN  /\ pause_length' = new_length
                    /\ pause_counter' = new_descent
                    /\ UNCHANGED <<start_idx, pause_start_idx>>
                    /\ IF climb_continues(slope)
                       THEN /\ state' = "IN_CLIMB"
                            /\ segment_points' = collected
                            /\ UNCHANGED <<climbs, validated>>
                       ELSE IF climb_pause_failed(new_length, new_descent)
                       THEN LET pts == drop_last(collected, i - pause_start_idx)
                            IN  /\ climbs' = validate_and_append_climb(
                                                 climbs, pts, start_idx)
                                /\ validated' = Append(validated,
                                       [kind |-> "climb", points |-> pts,
                                        start_idx |-> start_idx,
                                        failed_at |-> i,
                                        retained |-> climb_retained(pts)])
                                /\ state' = "SEARCHING"
                                /\ segment_points' = <<>>
                       ELSE /\ segment_points' = collected
                            /\ UNCHANGED <<state, climbs, validated>>
    /\ i' = i + 1
    /\ UNCHANGED <<token_vars, calls, altitude_profile, distance_profile, coordinates,
                   smooth_window,
                   pc, has_coords, grade, plot_grade, descents, result>>

\* mutant: a segment whose pause is unresolved at the end is not flushed
climb_in_progress_unpaused(st) == st = "IN_CLIMB"

\* line 150
climb_in_progress(st) == st \in {"IN_CLIMB", "EVALUATING_PAUSE"}

\* lines 149-155, then line 51 enters _detect_descents
DetectClimbsFlush ==
    /\ pc = "climbs"
    /\ ~ (i < N)
    /\ IF climb_in_progress(state) /\ segment_points # <<>>
       THEN /\ climbs' = validate_and_append_climb(climbs, segment_points,
                                                    start_idx)
            /\ validated' = Append(validated,
                   [kind |-> "climb", points |-> segment_points,
                    start_idx |-> start_idx, failed_at |-> -1,
                    retained |-> climb_retained(segment_points)])
       ELSE UNCHANGED <<climbs, validated>>
    /\ pc' = "descents"
    /\ ScannerReset
    /\ UNCHANGED <<token_vars, calls, altitude_profile, distance_profile, coordinates,
                   smooth_window,
                   has_coords, grade, plot_grade, descents, result>>

descent_starts(slope) == RatLeq(slope, -StartThreshold.num, StartThreshold.den)

descent_continues(slope) == RatLeq(slope, -EndThreshold.num, EndThreshold.den)

descent_pause_failed(length, counter) ==
    length > max_pause_length_m \/ counter > max_pause_ascent_m

\* lines 218-258: one iteration of the loop of _detect_descents
DetectDescentsStep ==
    /\ pc = "descents"
    /\ i < N
    /\ LET slope == grade_at(i)
           elev_diff == ele(i) - ele(i - 1)
           dist_diff == distance(i) - distance(i - 1)
       IN  IF state = "SEARCHING"
           THEN /\ IF descent_starts(slope)
                   THEN /\ state' = "IN_DESCENT"
                        /\ start_idx' = segment_opening(i).start_idx
                        /\ segment_points' = segment_opening(i).points
                   ELSE UNCHANGED <<state, start_idx, segment_points>>
                /\ UNCHANGED <<pause_start_idx, pause_length, pause_counter,
                               descents, validated, pc>>
           ELSE IF state = "IN_DESCENT"
           THEN /\ segment_points' = Append(segment_points, i)
                /\ IF descent_continues(slope)
                   THEN UNCHANGED <<state, pause_start_idx, pause_length,
                                    pause_counter>>
                   ELSE /\ state' = "EVALUATING_PAUSE"
                        /\ pause_start_idx' = i - 1
                        /\ pause_length' = 0
                        /\ pause_counter' = 0
                /\ UNCHANGED <<start_idx, descents, validated, pc>>
           ELSE LET collected == Append(segment_points, i)
                    new_length == pause_length + dist_diff
                    new_ascent == IF elev_diff > 0
                                  THEN pause_counter + elev_diff
                                  ELSE pause_counter
                IN  /\ pause_length' = new_length
                    /\ pause_counter' = new_ascent
                    /\ UNCHANGED <<start_idx, pause_start_idx>>
                    /\ IF descent_continues(slope)
                       THEN /\ state' = "IN_DESCENT"
                            /\ segment_points' = collected
                            /\ UNCHANGED <<descents, validated, pc>>
                       ELSE IF descent_pause_failed(new_length, new_ascent)
                       THEN LET pts == drop_last(collected, i - pause_start_idx)
                                out == validate_and_append_descent(
                                           descents, pts, start_idx, coordinates)
                            IN  /\ descents' = out.list
                                /\ pc' = IF out.raised THEN "raised" ELSE pc
                                /\ validated' = Append(validated,
                                       [kind |-> "descent", points |-> pts,
                                        start_idx |-> start_idx,
                                        failed_at |-> i,
                                        retained |-> descent_retained(pts)])
                                /\ state' = "SEARCHING"
                                /\ segment_points' = <<>>
                       ELSE /\ segment_points' = collected
                            /\ UNCHANGED <<state, descents, validated, pc>>
    /\ i' = i + 1
    /\ UNCHANGED <<token_vars, calls, altitude_profile, distance_profile, coordinates,
                   smooth_window,
                   has_coords, grade, plot_grade, climbs, result>>

\* lines 260-266
DetectDescentsFlush ==
    /\ pc = "descents"
    /\ ~ (i < N)
    /\ IF state \in {"IN_DESCENT", "EVALUATING_PAUSE"} /\ segment_points # <<>>
       THEN LET out == validate_and_append_descent(
                           descents, segment_points, start_idx, coordinates)
            IN  /\ descents' = out.list
                /\ pc' = IF out.raised THEN "raised" ELSE "fill"
                /\ validated' = Append(validated,
                       [kind |-> "descent", points |-> segment_points,
                        start_idx |-> start_idx, failed_at |-> -1,
                        retained |-> descent_retained(segment_points)])
       ELSE /\ pc' = "fill"
            /\ UNCHANGED <<descents, validated>>
    /\ UNCHANGED <<token_vars, calls, altitude_profile, distance_profile, coordinates,
                   smooth_window,
                   has_coords, grade, plot_grade, i, state, start_idx, segment_points,
                   pause_start_idx, pause_length, pause_counter, climbs, result>>

\* lines 54-60: merge, sort, fill the gaps, return
FillGaps ==
    /\ pc = "fill"
    /\ result' = fill_gaps(merge_segments(climbs, descents))
    /\ pc' = "done"
    /\ UNCHANGED <<token_vars, calls, altitude_profile, distance_profile, coordinates,
                   smooth_window,
                   has_coords, grade, plot_grade, i, state, start_idx, segment_points,
                   pause_start_idx, pause_length, pause_counter, climbs,
                   descents, validated>>

Next ==
    \/ CutSegment
    \/ DetectClimbsStep
    \/ DetectClimbsFlush
    \/ DetectDescentsStep
    \/ DetectDescentsFlush
    \/ FillGaps

-----------------------------------------------------------------------------
(* Inputs.  A profile is built from its per-step deltas; it starts at      *)
(* distance 0 and altitude 0.                                              *)

RECURSIVE prefix_sum(_, _)
prefix_sum(steps, k) == IF k = 0 THEN 0 ELSE steps[k] + prefix_sum(steps, k - 1)

\* the n-point profile whose consecutive deltas are steps[1..n-1]
profile(n, steps) == [k \in 1..n |-> prefix_sum(steps, k - 1)]

\* no StravaTokenManager has been constructed and no request is made
NoTokenManager ==
    /\ accounts = <<>>
    /\ current_account_idx = 0
    /\ account_stats = <<>>
    /\ now = 0
    /\ attempt = 0
    /\ request = "idle"
    /\ rate_limit = [called |-> FALSE, below_daily_limit |-> {},
                     returned |-> FALSE]

\* the state in which cut_segment(alt, dist, coords, window) is entered
Call(alt, dist, coords, window) ==
    /\ altitude_profile = alt
    /\ distance_profile = dist
    /\ coordinates = coords
    /\ smooth_window = window
    /\ pc = "call"
    /\ has_coords = FALSE
    /\ grade = <<>>
    /\ plot_grade = <<>>
    /\ i = 1
    /\ state = "SEARCHING"
    /\ start_idx = 0
    /\ segment_points = <<>>
    /\ pause_start_idx = 0
    /\ pause_length = 0
    /\ pause_counter = 0
    /\ climbs = <<>>
    /\ descents = <<>>
    /\ validated = <<>>
    /\ result = <<>>
    /\ calls = <<>>
    /\ NoTokenManager

\* every profile of up to MaxPoints points over the step alphabets, without
\* coordinates
Init ==
    \E n \in 0..MaxPoints :
        \E ds \in [1..(n - 1) -> DistSteps], as \in [1..(n - 1) -> AltSteps],
           w \in Windows :
            Call(profile(n, as), profile(n, ds), NoCoordinates, w)

Spec == Init /\ [][Next]_vars

\* a route that gains 100 m over 1000 m at a uniform 10 % slope, sampled in
\* k equal steps
InitRise ==
    \E k \in RiseSteps, w \in Windows :
        Call(profile(k + 1, [j \in 1..k |-> 100 \div k]),
             profile(k + 1, [j \in 1..k |-> 1000 \div k]),
             NoCoordinates, w)

SpecRise == InitRise /\ [][Next]_vars

\* climbs interrupted by descents, scanned on the unsmoothed grade
InitPause ==
    \E n \in 2..MaxPausePoints :
        \E ds \in [1..(n - 1) -> PauseDistSteps],
           as \in [1..(n - 1) -> PauseAltSteps] :
            Call(profile(n, as), profile(n, ds), NoCoordinates, 1)

SpecPause == InitPause /\ [][Next]_vars

\* the coordinates of a route that runs east along lat = 0 and, when
\* 0 < turn < n - 1, turns north by 90 degrees at point `turn`
route_coords(dist, turn) ==
    [k \in 1..Len(dist) |->
        IF turn <= 0 \/ k - 1 <= turn
        THEN [ok |-> TRUE, lat |-> 0, lon |-> dist[k]]
        ELSE [ok |-> TRUE, lat |-> dist[k] - dist[turn + 1],
              lon |-> dist[turn + 1]]]

\* the coordinate arguments tried for a profile: none, a well-formed route
\* (straight or with one turn), one element that is not a pair of numbers,
\* one element too few
coords_inputs(dist) ==
    LET n == Len(dist)
    IN  {NoCoordinates}
        \cup {[given |-> TRUE, pts |-> route_coords(dist, t)] :
                  t \in 0..Max(0, n - 2)}
        \cup {[given |-> TRUE,
               pts |-> [route_coords(dist, 0) EXCEPT ![m].ok = FALSE]] :
                  m \in 1..n}
        \cup (IF n = 0 THEN {}
              ELSE {[given |-> TRUE,
                     pts |-> SubSeq(route_coords(dist, 0), 1, n - 1)]})

InitCoords ==
    \E n \in 0..MaxCoordPoints :
        \E ds \in [1..(n - 1) -> CoordDistSteps],
           as \in [1..(n - 1) -> CoordAltSteps], w \in Windows :
            \E c \in coords_inputs(profile(n, ds)) :
                Call(profile(n, as), profile(n, ds), c, w)

SpecCoords == InitCoords /\ [][Next]_vars

\* profiles with duplicate (delta 0) and out-of-order (delta < 0) distance
\* samples, without coordinates
InitGrades ==
    \E n \in 2..MaxGradePoints :
        \E ds \in [1..(n - 1) -> GradeDistSteps],
           as \in [1..(n - 1) -> GradeAltSteps], w \in Windows :
            Call(profile(n, as), profile(n, ds), NoCoordinates, w)

SpecGrades == InitGrades /\ [][Next]_vars


\* the profiles a session segments: MaxSessionPoints points 150 m apart
SessionProfiles ==
    LET n == MaxSessionPoints
    IN  {[alt |-> profile(n, as), dist |-> profile(n, ds)] :
            as \in [1..(n - 1) -> SessionAltSteps],
            ds \in [1..(n - 1) -> SessionDistSteps]}

\* the record of a call that has ended
ended_call ==
    [altitude_profile |-> altitude_profile,
     distance_profile |-> distance_profile,
     coordinates |-> coordinates,
     smooth_window |-> smooth_window,
     outcome |-> pc,
     climbs |-> climbs,
     descents |-> descents,
     result |-> result]

\* mutant: the list of climbs outlives the call, as an attribute of the
\* SegmentSlicer would
fresh_climbs_kept == climbs

\* line 101: _detect_climbs starts from an empty list
fresh_climbs == <<>>

\* cut_segment is entered again on the same SegmentSlicer once the previous
\* call has ended.  The call binds its arguments and the locals that
\* cut_segment, _detect_climbs and _detect_descents initialise (lines 19,
\* 101-104, 213-216); pause_start_idx, pause_length and the pause
\* accumulator are not initialised on entry (their first assignment is at
\* lines 123-125 and 234-236), so they keep whatever they last held.
NewCall ==
    /\ pc \in {"done", "raised"}
    /\ Len(calls) < MaxCalls - 1
    /\ calls' = Append(calls, ended_call)
    /\ \E p \in SessionProfiles :
          /\ altitude_profile' = p.alt
          /\ distance_profile' = p.dist
    /\ coordinates' = NoCoordinates
    /\ smooth_window' = 1
    /\ pc' = "call"
    /\ has_coords' = FALSE
    /\ grade' = <<>>
    /\ plot_grade' = <<>>
    /\ i' = 1
    /\ state' = "SEARCHING"
    /\ start_idx' = 0
    /\ segment_points' = <<>>
    /\ climbs' = fresh_climbs
    /\ descents' = <<>>
    /\ validated' = <<>>
    /\ result' = <<>>
    /\ UNCHANGED <<token_vars, pause_start_idx, pause_length, pause_counter>>

NextSession ==
    \/ Next
    \/ NewCall

InitSession ==
    \E p \in SessionProfiles : Call(p.alt, p.dist, NoCoordinates, 1)

SpecSession == InitSession /\ [][NextSession]_vars


\* short profiles smoothed with every window from 1 to MaxWindow
InitWindow ==
    \E n \in 2..MaxWindowPoints :
        \E ds \in [1..(n - 1) -> WindowDistSteps],
           as \in [1..(n - 1) -> WindowAltSteps], w \in 1..MaxWindow :
            Call(profile(n, as), profile(n, ds), NoCoordinates, w)

SpecWindow == InitWindow /\ [][Next]_vars


\* profiles whose last step gains or loses an amount on or next to a
\* category threshold, over a short, a long and a very long distance
InitClassify ==
    \E n \in 2..MaxClassifyPoints :
        \E ds \in [1..(n - 1) -> ClassifyDistSteps],
           as \in [1..(n - 1) -> ClassifyAltSteps] :
            Call(profile(n, as), profile(n, ds), NoCoordinates, 1)

SpecClassify == InitClassify /\ [][Next]_vars


\* routes of steps of 300 m that rise or fall by 1 %, 2 % or a little more
InitFiller ==
    \E n \in 2..MaxFillerPoints :
        \E ds \in [1..(n - 1) -> FillerDistSteps],
           as \in [1..(n - 1) -> FillerAltSteps] :
            Call(profile(n, as), profile(n, ds), NoCoordinates, 1)

SpecFiller == InitFiller /\ [][Next]_vars


\* the coordinates of a route that runs east along lat = 0 and, when
\* 0 < turn < n - 1, doubles back west at point `turn` (a hairpin: the
\* angle formed at that point is 0 degrees, at every other point 180); one
\* unit of longitude is 15 m of route
hairpin_coords(dist, turn) ==
    [k \in 1..Len(dist) |->
        IF turn <= 0 \/ k - 1 <= turn
        THEN [ok |-> TRUE, lat |-> 0, lon |-> dist[k] \div 15]
        ELSE [ok |-> TRUE, lat |-> 0,
              lon |-> (2 * dist[turn + 1] - dist[k]) \div 15]]

InitTurns ==
    \E n \in 3..MaxTurnPoints :
        \E ds \in [1..(n - 1) -> TurnDistSteps],
           as \in [1..(n - 1) -> TurnAltSteps], t \in 0..(n - 2) :
            Call(profile(n, as), profile(n, ds),
                 [given |-> TRUE, pts |-> hairpin_coords(profile(n, ds), t)], 1)

SpecTurns == InitTurns /\ [][Next]_vars


\* the profile with every altitude negated
negated(alt) == [k \in 1..Len(alt) |-> -alt[k]]

\* cut_segment is entered a second time, on the profile of the call that
\* has just ended with every altitude negated; the call binds the same
\* locals as NewCall
MirrorCall ==
    /\ pc \in {"done", "raised"}
    /\ calls = <<>>
    /\ calls' = Append(calls, ended_call)
    /\ altitude_profile' = negated(altitude_profile)
    /\ pc' = "call"
    /\ has_coords' = FALSE
    /\ grade' = <<>>
    /\ plot_grade' = <<>>
    /\ i' = 1
    /\ state' = "SEARCHING"
    /\ start_idx' = 0
    /\ segment_points' = <<>>
    /\ climbs' = <<>>
    /\ descents' = <<>>
    /\ validated' = <<>>
    /\ result' = <<>>
    /\ UNCHANGED <<token_vars, distance_profile, coordinates, smooth_window,
                   pause_start_idx, pause_length, pause_counter>>

NextMirror ==
    \/ Next
    \/ MirrorCall

InitMirror ==
    \E n \in 2..MaxMirrorPoints :
        \E as \in [1..(n - 1) -> MirrorAltSteps],
           ds \in [1..(n - 1) -> MirrorDistSteps] :
            Call(profile(n, as), profile(n, ds), NoCoordinates, 1)

SpecMirror == InitMirror /\ [][NextMirror]_vars



-----------------------------------------------------------------------------
(* StravaTokenManager.  The clock counts 15-minute windows, so the start   *)
(* of the current window is the clock itself and a day is WindowsPerDay    *)
(* windows long.                                                           *)

WindowsPerDay == (24 * 60) \div WINDOW_MINUTES

\* lines 34-41
get_current_window_start(t) == t

\* lines 43-46
get_next_window_start(t) == get_current_window_start(t) + 1

\* datetime.now().replace(hour=0, minute=0, second=0, microsecond=0)
day_start(t) == (t \div WindowsPerDay) * WindowsPerDay

\* lines 48-65: the account's statistics after _reset_window_if_needed
reset_window_if_needed(stats, name, t) ==
    LET s == stats[name]
        current_window == get_current_window_start(t)
        w == IF current_window > s.current_window_start
             THEN [s EXCEPT !.calls_this_window = 0,
                            !.current_window_start = current_window]
             ELSE s
        d == IF day_start(t) > w.day_start
             THEN [w EXCEPT !.calls_today = 0, !.day_start = day_start(t)]
             ELSE w
    IN  [stats EXCEPT ![name] = d]

\* lines 143-149: the answer and the statistics the call leaves behind
can_make_call(stats, name, t) ==
    LET after == reset_window_if_needed(stats, name, t)
    IN  [stats |-> after,
         ok |-> /\ after[name].calls_this_window < CALLS_PER_15MIN
                /\ after[name].calls_today < CALLS_PER_DAY]

\* lines 151-156
record_api_call(stats, name, t) ==
    LET after == reset_window_if_needed(stats, name, t)
    IN  [after EXCEPT ![name].calls_this_window = @ + 1,
                      ![name].calls_today = @ + 1]

RECURSIVE switch_from(_, _, _, _, _)
\* lines 175-183: the loop of switch_account from `offset` on
switch_from(offset, accs, idx, stats, t) ==
    IF offset >= Len(accs) THEN [ok |-> FALSE, idx |-> idx, stats |-> stats]
    ELSE LET next_idx == (idx + offset) % Len(accs)
             account_name == accs[next_idx + 1]
             c == can_make_call(stats, account_name, t)
         IN  IF c.ok THEN [ok |-> TRUE, idx |-> next_idx, stats |-> c.stats]
             ELSE switch_from(offset + 1, accs, idx, c.stats, t)

\* lines 172-186: range(1, len(self.accounts)) leaves the current account out
switch_account(accs, idx, stats, t) == switch_from(1, accs, idx, stats, t)

\* lines 193-201: the clock after wait_for_next_window
wait_for_next_window(t) == get_next_window_start(t)

\* lines 203-248
handle_rate_limit(accs, idx, stats, t) ==
    LET first == switch_account(accs, idx, stats, t)
        any_can_recover ==
            \E k \in 1..Len(accs) :
                first.stats[accs[k]].calls_today < CALLS_PER_DAY
        woken == wait_for_next_window(t)
        second == switch_account(accs, idx, first.stats, woken)
    IN  IF first.ok
        THEN [returned |-> TRUE, idx |-> first.idx, stats |-> first.stats,
              now |-> t]
        ELSE IF any_can_recover
        THEN [returned |-> second.ok, idx |-> second.idx,
              stats |-> second.stats, now |-> woken]
        ELSE [returned |-> FALSE, idx |-> idx, stats |-> first.stats,
              now |-> t]

\* the accounts whose calls_today is below the daily limit
below_daily_limit(accs, stats) ==
    {accs[k] : k \in 1..Len(accs)} \cap
        {a \in DOMAIN stats : stats[a].calls_today < CALLS_PER_DAY}

\* the record of a call of handle_rate_limit entered with statistics `stats`
rate_limit_call(accs, stats, h) ==
    [called |-> TRUE,
     below_daily_limit |-> below_daily_limit(accs, stats),
     returned |-> h.returned]

\* lines 274-307: one iteration of the loop of
\* make_strava_request_with_retry; status is the response's status code
RequestAttempt ==
    /\ request = "running"
    /\ attempt < MaxRetries
    /\ LET current_account == accounts[current_account_idx + 1]
           c == can_make_call(account_stats, current_account, now)
           h == handle_rate_limit(accounts, current_account_idx, c.stats, now)
       IN  IF ~ c.ok
           THEN /\ rate_limit' = rate_limit_call(accounts, c.stats, h)
                /\ current_account_idx' = h.idx
                /\ account_stats' = h.stats
                /\ now' = h.now
                /\ IF h.returned
                   THEN attempt' = attempt + 1 /\ UNCHANGED request
                   ELSE request' = "none" /\ UNCHANGED attempt
           ELSE \E status \in Statuses :
                LET recorded == record_api_call(c.stats, current_account, now)
                    g == handle_rate_limit(accounts, current_account_idx,
                                           recorded, now)
                IN  IF status = 200
                    THEN /\ request' = "response"
                         /\ account_stats' = recorded
                         /\ UNCHANGED <<attempt, current_account_idx, now,
                                        rate_limit>>
                    ELSE IF status = 429
                    THEN /\ rate_limit' = rate_limit_call(accounts, recorded, g)
                         /\ current_account_idx' = g.idx
                         /\ account_stats' = g.stats
                         /\ now' = g.now
                         /\ IF g.returned
                            THEN attempt' = attempt + 1 /\ UNCHANGED request
                            ELSE request' = "none" /\ UNCHANGED attempt
                    ELSE IF status = 401
                    THEN /\ attempt' = attempt + 1
                         /\ account_stats' = recorded
                         /\ UNCHANGED <<request, current_account_idx, now,
                                        rate_limit>>
                    ELSE /\ request' = "none"
                         /\ account_stats' = recorded
                         /\ UNCHANGED <<attempt, current_account_idx, now,
                                        rate_limit>>
    /\ UNCHANGED <<accounts, slicer_vars>>

\* lines 309-310: the loop ends without a response
RetriesExhausted ==
    /\ request = "running"
    /\ attempt >= MaxRetries
    /\ request' = "none"
    /\ UNCHANGED <<accounts, current_account_idx, account_stats, now,
                   attempt, rate_limit, slicer_vars>>

\* a 15-minute window ends while the request is in progress
WindowPasses ==
    /\ request = "running"
    /\ now < WindowsPerDay + MaxWindowsIntoDay
    /\ now' = now + 1
    /\ UNCHANGED <<accounts, current_account_idx, account_stats, attempt,
                   request, rate_limit, slicer_vars>>

NextTokens ==
    \/ RequestAttempt
    \/ RetriesExhausted
    \/ WindowPasses

\* no cut_segment call is in progress
NoSlicerCall ==
    /\ altitude_profile = <<>>
    /\ distance_profile = <<>>
    /\ coordinates = NoCoordinates
    /\ smooth_window = 1
    /\ pc = "done"
    /\ has_coords = FALSE
    /\ grade = <<>>
    /\ plot_grade = <<>>
    /\ i = 1
    /\ state = "SEARCHING"
    /\ start_idx = 0
    /\ segment_points = <<>>
    /\ pause_start_idx = 0
    /\ pause_length = 0
    /\ pause_counter = 0
    /\ climbs = <<>>
    /\ descents = <<>>
    /\ validated = <<>>
    /\ result = <<>>
    /\ calls = <<>>

\* make_strava_request_with_retry is entered on a manager of 1..MaxAccounts
\* accounts, two windows before midnight, each account having made some
\* calls in the current window and day
InitTokens ==
    /\ NoSlicerCall
    /\ \E n \in 1..MaxAccounts :
          /\ accounts = SubSeq(AccountNames, 1, n)
          /\ current_account_idx \in 0..(n - 1)
          /\ account_stats \in
                [{AccountNames[k] : k \in 1..n} ->
                    [calls_this_window : WindowCalls,
                     calls_today : TodayCalls,
                     current_window_start : {WindowsPerDay - 2},
                     day_start : {0}]]
    /\ now = WindowsPerDay - 2
    /\ attempt = 0
    /\ request = "running"
    /\ rate_limit = [called |-> FALSE, below_daily_limit |-> {},
                     returned |-> FALSE]

SpecTokens == InitTokens /\ [][NextTokens]_vars


-----------------------------------------------------------------------------
(* Properties of the returned list.                                        *)

Done == pc = "done"

Returned == Done /\ ~ too_short(N)

\* index k lies in the [start_idx, end_idx] range of a returned segment
Covered(k) ==
    \E s \in 1..Len(result) : result[s].start_idx <= k /\ k <= result[s].end_idx

Uncovered == {k \in 0..(N - 1) : ~ Covered(k)}

\* the horizontal length of the stretch around an uncovered index k: from
\* the nearest covered point before it (the route start when there is none)
\* to the nearest covered point after it (the route end when there is none)
GapAround(k) ==
    LET before == {j \in 0..(k - 1) : Covered(j)}
        after == {j \in (k + 1)..(N - 1) : Covered(j)}
        lo == IF before = {} THEN 0
              ELSE distance(CHOOSE j \in before : \A m \in before : m <= j)
        hi == IF after = {} THEN distance(N - 1)
              ELSE distance(CHOOSE j \in after : \A m \in after : j <= m)
    IN  hi - lo

IsCandidate(seg) == seg \in (Range(climbs) \cup Range(descents))

-----------------------------------------------------------------------------
(* Claims.                                                                 *)

\* C1 as stated: for every profile with N >= 2 points, every index in
\* 0..N-1 lies inside the [start_idx, end_idx] range of a returned segment.
C1_EveryIndexCovered == Returned => Uncovered = {}

\* C1, amended: every index in 0..N-1 lies inside the range of a returned
\* segment, except indices inside a gap of at most 50 m of horizontal length
\* (before the first candidate, between candidates or after the last one),
\* for which the gap filler emits nothing.
C1_CoveredUpToDroppedGaps ==
    Returned => \A k \in Uncovered : GapAround(k) <= gap_min_m

\* C1 witness: a returned candidate preceded or followed by a gap of exactly
\* 50 m, whose index no returned segment covers.
C1_Witness ==
    /\ Returned
    /\ \E k \in Uncovered : GapAround(k) = gap_min_m
    /\ \E s \in 1..Len(result) : IsCandidate(result[s])

\* C2 as stated: no two consecutive segments of the returned list share an
\* index: a.end_idx < b.start_idx for consecutive a, b.
C2_NoSharedIndex ==
    Returned =>
        \A s \in 1..(Len(result) - 1) :
            result[s].end_idx < result[s + 1].start_idx

\* C3: the returned list is ordered by start_distance: consecutive segments
\* a, b have a.start_distance <= b.start_distance.
C3_SortedByStartDistance ==
    Returned =>
        \A s \in 1..(Len(result) - 1) :
            result[s].start_distance <= result[s + 1].start_distance

\* C3 witness: a returned list holding a descent candidate that lies before
\* a climb candidate, the reverse of the order climbs + descents lists them.
C3_Witness ==
    /\ Returned
    /\ climbs # <<>>
    /\ descents # <<>>
    /\ descents[1].start_distance < climbs[1].start_distance
    /\ Len(result) >= 2

ConstantAltitude ==
    \A k \in 1..Len(altitude_profile) : altitude_profile[k] = altitude_profile[1]

IncreasingDistance ==
    \A k \in 2..Len(distance_profile) :
        distance_profile[k] > distance_profile[k - 1]

\* C4: when the detectors accept no candidate the returned list is exactly
\* one filler with start_idx = 0 and end_idx = N-1; a constant-altitude
\* profile with increasing distance yields exactly one segment, of type flat.
C4_NoCandidateSingleFiller ==
    Returned =>
        /\ (climbs = <<>> /\ descents = <<>>) =>
              /\ Len(result) = 1
              /\ result[1].start_idx = 0
              /\ result[1].end_idx = N - 1
              /\ result[1].category = "Uncategorized"
              /\ result[1].type \in {"flat", "uphill", "downhill"}
        /\ (ConstantAltitude /\ IncreasingDistance) =>
              /\ Len(result) = 1
              /\ result[1].type = "flat"

\* C4 witness: a constant-altitude route of at least three points, returned
\* as one flat segment.
C4_Witness ==
    /\ Returned
    /\ N >= 3
    /\ ConstantAltitude
    /\ IncreasingDistance
    /\ climbs = <<>>
    /\ descents = <<>>
    /\ Len(result) = 1
    /\ result[1].type = "flat"

\* C5 as stated: a route that rises 100 m over 1000 m at a uniform 10 %
\* slope is returned as exactly one segment, spanning the whole route, of
\* type climb and category Cat 4, with average slope 10 and so a score of
\* length x average slope = 1000 x 10 = 10000.
C5_UniformRiseIsCat4 ==
    Returned =>
        /\ Len(result) = 1
        /\ result[1].start_idx = 0
        /\ result[1].end_idx = N - 1
        /\ result[1].type = "climb"
        /\ result[1].category = "Cat 4"
        /\ result[1].distance = 1000
        /\ result[1].grade = [num |-> 10, den |-> 1]
        /\ score(result[1].distance, result[1].grade) = [num |-> 10000, den |-> 1]

\* the pause of a climb candidate c that runs over the points p..q: the
\* smoothed grade falls short of end_threshold at every point of p..q,
\* satisfies it at p-1 and again at q+1, and all of p-1..q+1 is in c
ClimbPause(c, p, q) ==
    /\ c.start_idx < p - 1
    /\ p <= q
    /\ q + 1 <= c.end_idx
    /\ \A k \in p..q : ~ climb_continues(grade_at(k))
    /\ climb_continues(grade_at(p - 1))
    /\ climb_continues(grade_at(q + 1))

RECURSIVE AltitudeLost(_, _)
\* the altitude lost over the points p..q: the sum of the magnitudes of the
\* negative deltas ele(k) - ele(k-1), k in p..q
AltitudeLost(p, q) ==
    IF p > q THEN 0
    ELSE Max(0, ele(p - 1) - ele(p)) + AltitudeLost(p + 1, q)

\* the route indices a..b as a candidate's rows
Points(a, b) == [k \in 1..(b - a + 1) |-> a + k - 1]

\* C6 as stated: when the route loses more than max_pause_descent_m during
\* a pause of short horizontal span (at most max_pause_length_m) and then
\* climbs again, no single climb candidate spans both the climbing before
\* the pause and the renewed climbing, provided each part meets the minimum
\* length and gain on its own.
C6_PauseOverCapSplitsClimb ==
    \A s \in 1..Len(climbs) :
        \A p \in 1..(N - 1), q \in 1..(N - 1) :
            ( /\ ClimbPause(climbs[s], p, q)
              /\ AltitudeLost(p, q) > max_pause_descent_m
              /\ distance(q) - distance(p - 1) <= max_pause_length_m
              /\ climb_retained(Points(climbs[s].start_idx, p - 1))
              /\ climb_retained(Points(q, climbs[s].end_idx)) )
            => FALSE

RECURSIVE TotalChange(_, _, _)
\* the directional elevation change of a candidate's rows from row k on:
\* the sum of its positive consecutive altitude deltas (sign = 1, the total
\* gain) or of the magnitudes of its negative ones (sign = -1, the total loss)
TotalChange(pts, k, sign) ==
    IF k > Len(pts) THEN 0
    ELSE Max(0, sign * (ele(pts[k]) - ele(pts[k - 1])))
         + TotalChange(pts, k + 1, sign)

\* C7 as stated: a candidate handed to validation is retained if and only
\* if it has at least 2 points, its length is >= 300 m and its directional
\* elevation change (total gain of a climb, total loss of a descent) is
\* >= 20 m.
C7_RetainedIffMeetsMinimums ==
    \A v \in 1..Len(validated) :
        LET pts == validated[v].points
            sign == IF validated[v].kind = "climb" THEN 1 ELSE -1
        IN  validated[v].retained <=>
               /\ Len(pts) >= 2
               /\ segment_length(pts) >= 300
               /\ TotalChange(pts, 2, sign) >= 20

\* the coordinates argument is a well-formed route: one pair of numbers per
\* point of the profile
WellFormedCoords ==
    /\ coordinates.given
    /\ coords_parse(coordinates)
    /\ Len(coordinates.pts) = N

\* the route changes direction at point k (0 < k < N-1): the step into k and
\* the step out of k are not parallel and equally directed
TurnsAt(k) ==
    LET a == coordinates.pts[k]
        b == coordinates.pts[k + 1]
        c == coordinates.pts[k + 2]
        ux == b.lat - a.lat
        uy == b.lon - a.lon
        vx == c.lat - b.lat
        vy == c.lon - b.lon
    IN  ~ (ux * vy - uy * vx = 0 /\ ux * vx + uy * vy > 0)

\* C8 as stated: the sharp_turns of a categorized descent counts the turns
\* of the route inside it whose local distance span is under 50 m: a
\* 90-degree turn over a 30 m span counts 1, the same turn over a 200 m span
\* counts 0, and a point where the route goes straight on is not counted.
C8_SharpTurnsCountTurns ==
    (Returned /\ WellFormedCoords) =>
        \A s \in 1..Len(result) :
            result[s].type = "descent" =>
                result[s].sharp_turns =
                    Cardinality({k \in (result[s].start_idx + 1)
                                         ..(result[s].end_idx - 1) :
                                    /\ TurnsAt(k)
                                    /\ distance(k + 1) - distance(k - 1)
                                         < sharp_turn_span_m})

\* coordinates are supplied but malformed: an element is not a pair of
\* numbers, or their number differs from the profile's
MalformedCoords ==
    /\ coordinates.given
    /\ (~ coords_parse(coordinates) \/ Len(coordinates.pts) # N)

\* C9 as stated: with malformed coordinates cut_segment does not raise, and
\* every returned segment that carries sharp_turns has sharp_turns = 0.
C9_MalformedCoordsIgnored ==
    MalformedCoords =>
        /\ pc # "raised"
        /\ Done => \A s \in 1..Len(result) :
                      "sharp_turns" \in DOMAIN result[s]
                          => result[s].sharp_turns = 0

\* C10 as stated: cut_segment called with fewer than 2 points (N = 0 or
\* N = 1) returns an empty list and raises no error.
C10_FewerThanTwoPointsEmpty ==
    N < 2 => /\ pc \in {"call", "done"}
             /\ result = <<>>

\* The part of C10 the code keeps: with fewer than 2 points and coordinates
\* that are absent, not convertible or as many as the points, cut_segment
\* returns an empty list and raises no error.
FewerThanTwoPointsEmptyWhenColumnsFit ==
    ( /\ N < 2
      /\ coords_column_len(coordinates, N) = N )
    => /\ pc \in {"call", "done"}
       /\ result = <<>>

\* the grade column has been computed
GradesComputed ==
    pc \in {"climbs", "descents", "fill", "done"} /\ ~ too_short(N)

\* C11: for every index k >= 1, grade[k] = (altitude[k] - altitude[k-1]) /
\* (distance[k] - distance[k-1]) x 100 when the distance delta is positive
\* and grade[k] = 0 when it is zero or negative; duplicate or out-of-order
\* distance samples never make cut_segment raise.
C11_GradeZeroOnNonPositiveDelta ==
    /\ ~ coordinates.given => pc # "raised"
    /\ GradesComputed =>
          /\ Len(grade) = N
          /\ \A k \in 1..(N - 1) :
                LET dd == distance(k) - distance(k - 1)
                    da == ele(k) - ele(k - 1)
                IN  IF dd > 0
                    THEN /\ grade[k + 1].den > 0
                         /\ grade[k + 1].num * dd = 100 * da * grade[k + 1].den
                    ELSE grade[k + 1].num = 0

\* C11 witness: cut_segment has returned a non-empty list for a profile with
\* a duplicate distance sample, an out-of-order one and a positive delta,
\* each with a change of altitude.
C11_Witness ==
    /\ Done
    /\ result # <<>>
    /\ \E k \in 1..(N - 1) : distance(k) = distance(k - 1)
    /\ \E k \in 1..(N - 1) : distance(k) < distance(k - 1)
    /\ \E k \in 1..(N - 1) :
          distance(k) > distance(k - 1) /\ grade[k + 1].num # 0


C13_EveryRecordHasSharpTurns ==
    Returned =>
        \A s \in 1..Len(result) :
            /\ "sharp_turns" \in DOMAIN result[s]
            /\ result[s].type # "descent" => result[s].sharp_turns = 0


\* seg is one of the records built by _validate_and_append_climb
IsClimbCandidate(seg) == seg \in Range(climbs)

\* seg is one of the records built by _validate_and_append_descent
IsDescentCandidate(seg) == seg \in Range(descents)

\* C14: every returned segment has type in {flat, uphill, climb, downhill,
\* descent}; type is climb exactly when the segment is a climb candidate
\* with a category other than Uncategorized, type is descent exactly when it
\* is a descent candidate with a category other than Uncategorized, and
\* every flat, uphill or downhill segment has category Uncategorized.
C14_TypeAgreesWithCategory ==
    Returned =>
        \A s \in 1..Len(result) :
            LET seg == result[s]
            IN  /\ seg.type \in {"flat", "uphill", "climb", "downhill", "descent"}
                /\ seg.type = "climb" <=>
                      (IsClimbCandidate(seg) /\ seg.category # "Uncategorized")
                /\ seg.type = "descent" <=>
                      (IsDescentCandidate(seg) /\ seg.category # "Uncategorized")
                /\ seg.type \in {"flat", "uphill", "downhill"} =>
                      seg.category = "Uncategorized"

\* C14 witness: a returned list holding a categorized climb next to a filler.
C14_Witness ==
    /\ Returned
    /\ \E s \in 1..Len(result), t \in 1..Len(result) :
          /\ result[s].type = "climb"
          /\ result[s].category = "Cat 4"
          /\ ~ IsCandidate(result[t])
          /\ result[t].category = "Uncategorized"


\* the calls that have ended so far, the current one included once it has
SameArguments(a, b) ==
    /\ a.altitude_profile = b.altitude_profile
    /\ a.distance_profile = b.distance_profile
    /\ a.coordinates = b.coordinates
    /\ a.smooth_window = b.smooth_window

EndedCalls ==
    IF pc \in {"done", "raised"} THEN Append(calls, ended_call) ELSE calls

\* C15: cut_segment is deterministic and stateless: two calls with the same
\* altitude, distance, coordinates and smooth_window return identical
\* segment lists, whichever other profiles were segmented on the same
\* SegmentSlicer in between, and a call leaves its input sequences unchanged.
C15_DeterministicAndStateless ==
    /\ [](\A a \in 1..Len(EndedCalls), b \in 1..Len(EndedCalls) :
            SameArguments(EndedCalls[a], EndedCalls[b]) =>
                /\ EndedCalls[a].outcome = EndedCalls[b].outcome
                /\ EndedCalls[a].result = EndedCalls[b].result)
    /\ [][pc \notin {"done", "raised"} =>
             /\ altitude_profile' = altitude_profile
             /\ distance_profile' = distance_profile
             /\ coordinates' = coordinates
             /\ smooth_window' = smooth_window]_vars

\* C15 witness: three calls have ended; the first and the third had the same
\* arguments and returned a candidate, the second segmented another profile
\* and left a failed pause behind.
C15_Witness ==
    /\ Len(EndedCalls) = 3
    /\ SameArguments(EndedCalls[1], EndedCalls[3])
    /\ ~ SameArguments(EndedCalls[1], EndedCalls[2])
    /\ climbs # <<>>
    /\ EndedCalls[3].result = EndedCalls[1].result
    /\ pause_counter > 0


\* C16 as stated: the elevation_gain of every accepted climb candidate is
\* the sum of the positive consecutive altitude deltas between its points,
\* first point to last, and the elevation_loss of every accepted descent
\* candidate is the sum of the magnitudes of the negative ones.
C16_GainIsSumOfPositiveDeltas ==
    /\ \A s \in 1..Len(climbs) :
          climbs[s].elevation_gain =
              TotalChange(Points(climbs[s].start_idx, climbs[s].end_idx), 2, 1)
    /\ \A s \in 1..Len(descents) :
          descents[s].elevation_loss =
              TotalChange(Points(descents[s].start_idx, descents[s].end_idx),
                          2, -1)


\* the smoothed grade at point k satisfies end_threshold in the direction
\* of a candidate of the given kind
Continues(kind, k) ==
    IF kind = "climb" THEN climb_continues(grade_at(k))
    ELSE descent_continues(grade_at(k))

\* the index at which the grade first fell short in the pause that failed at
\* point fa: the start of the run of points, ending at fa, whose grade
\* falls short of end_threshold
PauseFirstIndex(kind, fa) ==
    CHOOSE p \in 1..fa :
        /\ \A k \in p..fa : ~ Continues(kind, k)
        /\ Continues(kind, p - 1)

\* the candidates submitted because a pause failed
FailedPauses == {v \in 1..Len(validated) : validated[v].failed_at >= 0}

\* C17: when a pause fails at point i, the candidate submitted to validation
\* consists exactly of the route indices start_idx..p-1, p being the index
\* at which the grade first fell short in this pause: its end_idx is p-1 and
\* no point from p to i is in it, however many points the pause lasted and
\* whether or not earlier pauses were absorbed in the same segment.
C17_FailedPauseKeepsPointsBeforeIt ==
    \A v \in FailedPauses :
        LET c == validated[v]
            p == PauseFirstIndex(c.kind, c.failed_at)
            accepted == IF c.kind = "climb" THEN climbs ELSE descents
        IN  /\ c.start_idx < p - 1
            /\ c.points = Points(c.start_idx, p - 1)
            /\ \A k \in p..c.failed_at : k \notin Range(c.points)
            /\ c.retained =>
                  \E s \in 1..Len(accepted) :
                      /\ accepted[s].start_idx = c.start_idx
                      /\ accepted[s].end_idx = p - 1

\* C17 witness: a climb candidate submitted on a failed pause that lasted
\* two points, with an earlier pause absorbed among its points, and accepted.
C17_Witness ==
    \E v \in FailedPauses :
        LET c == validated[v]
        IN  /\ c.kind = "climb"
            /\ c.retained
            /\ c.failed_at - PauseFirstIndex(c.kind, c.failed_at) >= 1
            /\ \E k \in (c.start_idx + 2)..(c.points[Len(c.points)] - 1) :
                  ~ Continues(c.kind, k)


\* the points p..q are a pause inside the accepted candidate c of the given
\* kind: a maximal run of points of c whose smoothed grade falls short of
\* end_threshold, after the two points that opened the segment
PauseIn(kind, c, p, q) ==
    /\ c.start_idx + 1 < p
    /\ p <= q
    /\ q <= c.end_idx
    /\ \A k \in p..q : ~ Continues(kind, k)
    /\ Continues(kind, p - 1)
    /\ q < c.end_idx => Continues(kind, q + 1)

\* the elevation change against the direction of the candidate over the
\* steps into the points p..q
CounterElevation(kind, p, q) ==
    TotalChange(Points(p - 1, q), 2, IF kind = "climb" THEN -1 ELSE 1)

\* every pause of the accepted candidates of the given kind is within the
\* two caps, the step into its first point included (from = p - 1) or left
\* out as the accumulators of the scanner leave it out (from = p)
PausesWithinCaps(kind, accepted, entry) ==
    \A s \in 1..Len(accepted) :
        \A p \in 1..(N - 1), q \in 1..(N - 1) :
            PauseIn(kind, accepted[s], p, q) =>
                /\ distance(q) - distance(p - entry) <= max_pause_length_m
                /\ CounterElevation(kind, p + 1 - entry, q)
                     <= (IF kind = "climb" THEN max_pause_descent_m
                         ELSE max_pause_ascent_m)

\* C18 as stated: every pause contained in an emitted candidate spans at
\* most max_pause_length_m (200 m) horizontally and accumulates at most 15 m
\* of counter-direction elevation.
C18_AbsorbedPauseWithinCaps ==
    /\ PausesWithinCaps("climb", climbs, 1)
    /\ PausesWithinCaps("descent", descents, 1)

\* What the scanners do guarantee: the caps hold for every pause of an
\* emitted candidate when the step into the pause's first point is left out.
AbsorbedPauseWithinCapsAfterEntry ==
    /\ PausesWithinCaps("climb", climbs, 0)
    /\ PausesWithinCaps("descent", descents, 0)


\* v was submitted on a failed pause and w is a later candidate of the same
\* detector run
LaterCandidate(v, w) ==
    /\ v \in FailedPauses
    /\ w \in (v + 1)..Len(validated)
    /\ validated[w].kind = validated[v].kind

\* C19 as stated: after a pause has failed, no later candidate of the same
\* detector run contains a point of that failed pause, so each candidate's
\* start_idx is greater than the index at which the preceding pause failed.
C19_StartAfterFailedPause ==
    \A v \in 1..Len(validated), w \in 1..Len(validated) :
        LaterCandidate(v, w) =>
            validated[w].start_idx > validated[v].failed_at

\* C19, amended: after a pause has failed at point i, no later candidate of
\* the same detector run contains a point before i, so each later
\* candidate's start_idx is greater than or equal to i; the point i itself
\* can be the first point of the next candidate.
C19_StartNotBeforeFailedPause ==
    \A v \in 1..Len(validated), w \in 1..Len(validated) :
        LaterCandidate(v, w) =>
            /\ validated[w].start_idx >= validated[v].failed_at
            /\ \A k \in Range(validated[w].points) :
                  k >= validated[v].failed_at

\* C19 witness: an accepted candidate whose first point is the point at
\* which the preceding pause of the same detector run failed.
C19_Witness ==
    \E v \in 1..Len(validated), w \in 1..Len(validated) :
        /\ LaterCandidate(v, w)
        /\ validated[w].retained
        /\ validated[w].start_idx = validated[v].failed_at
        /\ validated[w].points[1] = validated[v].failed_at


\* the scan of the running detector has reached the end of the sequence
AtEndOfScan == pc \in {"climbs", "descents"} /\ ~ (i < N)

\* the list `after` is the list `before` with one more record, a candidate
\* that runs from index `first` to the last point of the route
FinalCandidateAppended(before, after, first) ==
    /\ Len(after) = Len(before) + 1
    /\ after[Len(after)].start_idx = first
    /\ after[Len(after)].end_idx = N - 1

\* C20: when the scan reaches the end of the sequence with a segment in
\* progress (in-segment state or EVALUATING_PAUSE), that segment is submitted
\* to validation with all the points collected so far, start_idx..N-1, the
\* points of a still unresolved pause included, so an accepted final
\* candidate has end_idx = N-1; when the scanner is in SEARCHING at the end,
\* nothing is flushed.
C20_FlushAtEndOfSequence ==
    [][AtEndOfScan =>
          IF state = "SEARCHING"
          THEN /\ validated' = validated
               /\ climbs' = climbs
               /\ descents' = descents
          ELSE /\ Len(validated') = Len(validated) + 1
               /\ validated'[Len(validated')].points = Points(start_idx, N - 1)
               /\ validated'[Len(validated')].start_idx = start_idx
               /\ validated'[Len(validated')].retained =>
                     IF pc = "climbs"
                     THEN FinalCandidateAppended(climbs, climbs', start_idx)
                     ELSE FinalCandidateAppended(descents, descents',
                                                 start_idx)]_vars

\* C20 witness: the climb scanner reached the end of the sequence inside an
\* unresolved pause, and the flushed candidate, pause points included, was
\* accepted with end_idx = N-1.
C20_Witness ==
    /\ pc = "descents"
    /\ climbs # <<>>
    /\ validated # <<>>
    /\ validated[Len(validated)].failed_at = -1
    /\ validated[Len(validated)].retained
    /\ climbs[Len(climbs)].end_idx = N - 1
    /\ ~ Continues("climb", N - 1)


\* the mean of grade over the window of route index k (0-based), index 0
\* left out of the window as an undefined value is by a rolling mean
MeanSkippingFirst(k) ==
    LET h == (window_size(smooth_window, N) - 1) \div 2
        lo == Max(1, k - h)
        hi == Min(N - 1, k + h)
    IN  RatDivInt(RatSum(grade, lo + 1, hi + 1), hi - lo + 1)

\* C21 as stated: grade[0] is undefined and only indices i >= 1 carry a
\* number, so the smoothed grade near the start of the route is the mean of
\* the grades of the indices >= 1 in the window and is not pulled toward 0
\* by a value at index 0.
C21_FirstGradeUndefined ==
    GradesComputed =>
        \A k \in 0..(N - 1) :
            (k + (window_size(smooth_window, N) - 1) \div 2 >= 1) =>
                grade_at(k) = MeanSkippingFirst(k)


\* the effective window of the call
EffectiveWindow == window_size(smooth_window, N)

\* the smoothed grade is a number at every index: the mean of the grades of
\* the points at most half a window away
SmoothedEverywhere ==
    /\ Len(plot_grade) = N
    /\ \A k \in 0..(N - 1) :
          LET near == {j \in 0..(N - 1) : 2 * Abs(j - k) < EffectiveWindow}
              lo == CHOOSE j \in near : \A m \in near : j <= m
              hi == CHOOSE j \in near : \A m \in near : m <= j
          IN  /\ grade_at(k).den > 0
              /\ grade_at(k) = RatDivInt(RatSum(grade, lo + 1, hi + 1),
                                         Cardinality(near))

ClimbCategories ==
    <<[label |-> "Cat 4", least |-> 8000], [label |-> "Cat 3", least |-> 16000],
      [label |-> "Cat 2", least |-> 32000], [label |-> "Cat 1", least |-> 64000],
      [label |-> "HC", least |-> 80000]>>

DescentCategories ==
    <<[label |-> "Minor Descent", least |-> 8000],
      [label |-> "Moderate Descent", least |-> 16000],
      [label |-> "Significant Descent", least |-> 32000],
      [label |-> "Major Descent", least |-> 64000]>>

\* the position of a category in its table, 0 for Uncategorized
CategoryRank(table, label) ==
    IF label = "Uncategorized" THEN 0
    ELSE CHOOSE r \in 1..Len(table) : table[r].label = label

\* the rank the stated rule gives: 0 when the slope is under 3, otherwise
\* the number of thresholds the score length x slope reaches
StatedRank(table, length_m, slope) ==
    IF slope.num < 3 * slope.den THEN 0
    ELSE Cardinality({r \in 1..Len(table) :
            length_m * slope.num >= table[r].least * slope.den})

\* the absolute value of a rational
RatAbs(a) == [num |-> Abs(a.num), den |-> a.den]

\* C23: a climb with average slope < 3 is Uncategorized, otherwise its
\* category is the highest of Cat 4 (score >= 8000), Cat 3 (16000), Cat 2
\* (32000), Cat 1 (64000), HC (80000) whose threshold its score = length x
\* average slope reaches; a descent likewise on the absolute slope with
\* Minor (8000), Moderate (16000), Significant (32000), Major (64000); every
\* threshold is inclusive and the category never decreases as the score
\* grows.
C23_CategoryByScore ==
    /\ \A s \in 1..Len(climbs) :
          LET c == climbs[s]
          IN  /\ c.category \in {"Uncategorized"} \cup
                    {ClimbCategories[r].label : r \in 1..Len(ClimbCategories)}
              /\ CategoryRank(ClimbCategories, c.category)
                    = StatedRank(ClimbCategories, c.distance, c.grade)
              /\ \A g \in ClassifyGains, d \in ClassifyDistSteps :
                    LET slope == Rat(100 * g, d)
                    IN  ( /\ ~ RatLt(slope, 3, 1)
                          /\ ~ RatLt(c.grade, 3, 1)
                          /\ 100 * g >= score(c.distance, c.grade).num )
                        => CategoryRank(ClimbCategories,
                               classify_climb_strava(d, slope))
                             >= CategoryRank(ClimbCategories, c.category)
    /\ \A s \in 1..Len(descents) :
          LET c == descents[s]
          IN  /\ c.category \in {"Uncategorized"} \cup
                    {DescentCategories[r].label :
                        r \in 1..Len(DescentCategories)}
              /\ CategoryRank(DescentCategories, c.category)
                    = StatedRank(DescentCategories, c.distance, RatAbs(c.grade))
              /\ \A g \in ClassifyGains, d \in ClassifyDistSteps :
                    LET slope == Rat(100 * g, d)
                    IN  ( /\ ~ RatLt(slope, 3, 1)
                          /\ ~ RatLt(RatAbs(c.grade), 3, 1)
                          /\ 100 * g >= score(c.distance, RatAbs(c.grade)).num )
                        => CategoryRank(DescentCategories,
                               classify_descent(d, slope))
                             >= CategoryRank(DescentCategories, c.category)

\* C23 witness: a climb candidate whose score is exactly 8000, in Cat 4.
C23_Witness ==
    \E s \in 1..Len(climbs) :
        /\ score(climbs[s].distance, climbs[s].grade) = [num |-> 8000, den |-> 1]
        /\ climbs[s].category = "Cat 4"
        /\ climbs[s].type = "climb"


\* the positions of the candidates in the returned list
CandidatePositions == {s \in 1..Len(result) : IsCandidate(result[s])}

\* the distance at which the candidate before position s ends, 0 when there
\* is none: where the gap in front of position s begins
GapStart(s) ==
    LET before == {t \in CandidatePositions : t < s}
    IN  IF before = {} THEN 0
        ELSE result[CHOOSE t \in before : \A u \in before : u <= t].end_distance

\* C24: the Gap Filler emits a filler for a gap (before the first candidate,
\* between the end of the previous segment and the next candidate, or after
\* the last candidate) if and only if the gap is longer than 50 m, the
\* filler spanning the gap; and every candidate passed in appears in the
\* output exactly once, unchanged.
C24_FillerIffGapOver50 ==
    (Returned /\ climbs \o descents # <<>>) =>
        /\ Cardinality(CandidatePositions) = Len(climbs) + Len(descents)
        /\ \A c \in Range(climbs) \cup Range(descents) :
              \E s \in CandidatePositions : result[s] = c
        /\ \A s \in CandidatePositions :
              (result[s].start_distance - GapStart(s) > gap_min_m)
                  <=> (s > 1 /\ s - 1 \notin CandidatePositions)
        /\ (distance(N - 1) - GapStart(Len(result) + 1) > gap_min_m)
              <=> Len(result) \notin CandidatePositions
        /\ \A s \in (1..Len(result)) \ CandidatePositions :
              /\ s > 1 => s - 1 \in CandidatePositions
              /\ result[s].start_distance = GapStart(s)
              /\ result[s].end_distance =
                    (IF s < Len(result) THEN result[s + 1].start_distance
                     ELSE distance(N - 1))
              /\ result[s].distance > gap_min_m

\* C24 witness: a returned list whose first segment is a candidate that
\* starts 50 m into the route: the gap of exactly 50 m in front of it got
\* no filler.
C24_Witness ==
    /\ Returned
    /\ 1 \in CandidatePositions
    /\ result[1].start_distance = gap_min_m
    /\ result[1].start_idx = 1

\* the sum of the smoothed grades over the index range of segment f, and
\* the number of its indices
GradeSumOver(f) == RatSum(plot_grade, f.start_idx + 1, f.end_idx + 1)

IndexCount(f) == f.end_idx - f.start_idx + 1

\* C25: a filler's type is decided only by the average smoothed grade over
\* its own index range: uphill when the average is > 1, downhill when it is
\* < -1, flat otherwise (the bounds -1 and 1 give flat); its category is
\* always Uncategorized.
C25_FillerTypeByMeanGrade ==
    Returned =>
        \A s \in (1..Len(result)) \ CandidatePositions :
            LET f == result[s]
                sum == GradeSumOver(f)
                cnt == IndexCount(f)
            IN  /\ f.category = "Uncategorized"
                /\ f.type = (IF sum.num > cnt * sum.den THEN "uphill"
                             ELSE IF sum.num < -(cnt * sum.den) THEN "downhill"
                             ELSE "flat")

\* C25 witness: a filler whose average smoothed grade is exactly 1, typed
\* flat.
C25_Witness ==
    /\ Returned
    /\ \E s \in (1..Len(result)) \ CandidatePositions :
          /\ GradeSumOver(result[s]).num
                = IndexCount(result[s]) * GradeSumOver(result[s]).den
          /\ result[s].type = "flat"
          /\ result[s].grade = [num |-> 1, den |-> 1]


\* the angle formed at route index k by its two neighbours on the route is
\* over 60 degrees
AngleAtOver60(k) ==
    angle_over_60(coordinates.pts[k], coordinates.pts[k + 1],
                  coordinates.pts[k + 2])

\* the categorized descents of the returned list
CategorizedDescents ==
    {s \in 1..Len(result) : result[s].type = "descent"}

\* C26 as stated: the sharp turns of a categorized descent are computed from
\* the coordinates at the descent's own route indices start_idx..end_idx:
\* the angle evaluated at an interior point of the segment is the angle
\* formed at that route index by the coordinates of its two neighbours, so
\* coordinates outside [start_idx, end_idx] have no effect.
C26_TurnsFromOwnCoordinates ==
    (Returned /\ WellFormedCoords) =>
        \A s \in CategorizedDescents :
            result[s].sharp_turns =
                Cardinality({k \in (result[s].start_idx + 1)
                                     ..(result[s].end_idx - 1) :
                                /\ AngleAtOver60(k)
                                /\ distance(k + 1) - distance(k - 1)
                                     < sharp_turn_span_m})


\* the rows of segment f evaluated by the turn counter: every row but the
\* first and the last, numbered from 0 within the segment
EvaluatedRows(f) == 1..(f.end_idx - f.start_idx - 1)

\* the angle the turn counter evaluates for row r of a segment is over 60
\* degrees: the angle formed by elements r-1, r, r+1 of the coordinate list
EvaluatedAngleOver60(r) ==
    angle_over_60(coordinates.pts[r], coordinates.pts[r + 1],
                  coordinates.pts[r + 2])

\* the distance between the rows `apart` before and `apart` after row r of
\* segment f, not reaching past the segment's ends
SpanAround(f, r, apart) ==
    distance(Min(f.end_idx, f.start_idx + r + apart))
        - distance(Max(f.start_idx, f.start_idx + r - apart))

\* the number of evaluated rows of f whose angle is over 60 degrees and
\* whose span, taken `apart` rows either side, is under 50 m
TurnsCounted(f, apart) ==
    Cardinality({r \in EvaluatedRows(f) :
                    /\ EvaluatedAngleOver60(r)
                    /\ SpanAround(f, r, apart) < sharp_turn_span_m})

MirrorOf(d, c) ==
    /\ d.start_idx = c.start_idx
    /\ d.end_idx = c.end_idx
    /\ d.distance = c.distance
    /\ d.elevation_loss = c.elevation_gain
    /\ d.grade.num * c.grade.den = - (c.grade.num * d.grade.den)

\* the list ds of descent candidates mirrors the list cs of climb candidates
MirrorList(ds, cs) ==
    /\ Len(ds) = Len(cs)
    /\ \A k \in 1..Len(ds) : MirrorOf(ds[k], cs[k])

\* the second call of a mirrored session has run both detectors
MirrorScanned == Len(calls) = 1 /\ pc \in {"fill", "done"}

\* C28: for every profile, the descent candidates are the climb candidates
\* found on the profile with every altitude negated: same start_idx,
\* end_idx and length, elevation_loss equal to that run's elevation_gain,
\* grade of opposite sign.  Checked in both directions: the descents of the
\* negated profile against the climbs of the profile, and the descents of
\* the profile against the climbs of the negated profile.
C28_DescentsMirrorClimbs ==
    MirrorScanned =>
        /\ MirrorList(descents, calls[1].climbs)
        /\ MirrorList(calls[1].descents, climbs)


\* the route indices a segment covers
IndexRange(seg) == seg.start_idx..seg.end_idx

\* C29: any two distinct segments of the returned list have index ranges
\* that intersect in at most one index, a shared boundary point, so a climb
\* candidate and a descent candidate never cover a common stretch and a
\* filler never extends into a candidate, equal consecutive distances
\* included.
C29_AtMostOneCommonIndex ==
    Returned =>
        \A s, t \in 1..Len(result) :
            s # t =>
                Cardinality(IndexRange(result[s]) \cap IndexRange(result[t])) <= 1


\* C30: handle_rate_limit returns True whenever at least one account is
\* below its daily limit when it is called, and False only when every
\* account has reached the daily limit, for any number of accounts, one
\* included.
C30_TrueWhileAnAccountBelowDailyLimit ==
    rate_limit.called =>
        (rate_limit.below_daily_limit # {} <=> rate_limit.returned)

=============================================================================
